---- MODULE Spec2Model ----
(***************************************************************************)
(* A model of SubSolarPoint.py: the coordinate formatter, the solar        *)
(* ephemeris formulas, the subsolar-longitude step with its two readings   *)
(* of the wall clock, and the driver loop.                                 *)
(*                                                                         *)
(* Real numbers are fixed-point integers.  Angles handed to the formatter  *)
(* count 1/SubArc arc-seconds; times of day count seconds; the ephemeris   *)
(* works in units of 1/Scale.                                              *)
(***************************************************************************)
EXTENDS Integers, Sequences, FiniteSets, TLC

VARIABLES
    fmtIn,      \* formatter: <<latitude, longitude>> in 1/SubArc arc-seconds
    fmtOut,     \* formatter: the six fields handed to format_string.format
    clock,      \* the wall clock (UTC), in minutes since the Unix epoch
    ticks,      \* how often the clock has advanced
    date,       \* longitude step: the instant passed in
    lonPc,      \* longitude step: the line about to run
    eOT,        \* longitude step: local eOT
    hourRead,   \* longitude step: <<hour read, clock when it was read>>
    minuteRead, \* longitude step: <<minute read, clock when it was read>>
    lon,        \* longitude step: the value returned by the latest call
    prevLon,    \* longitude step: the value the call before returned
    calls,      \* longitude step: calls returned so far for this instant
    ephT,       \* ephemeris: a Julian century t, in 1/TScale centuries
    ephM,       \* ephemeris: <<mean_anomaly(ephT)>> once it has returned
    ephDate,    \* ephemeris: an instant, in minutes since the Unix epoch
    ephLat,     \* ephemeris: <<latitude_of_sun(ephDate)>> once it has returned
    loopPc,     \* driver: the line about to run
    utcNow,     \* driver: now of get_sub_solar_coordinates
    lat,        \* driver: lat of get_sub_solar_coordinates
    coordinates,\* driver: the formatted coordinates and their iteration
    iter,       \* driver: the parity of the iteration under way
    printed     \* driver: the time lines, sentences and sleeps of the
                \* iteration under way, and the iteration the sentence is of

fmtVars == <<fmtIn, fmtOut>>
lonVars == <<clock, ticks, date, lonPc, eOT, hourRead, minuteRead, lon,
             prevLon, calls>>

ephVars == <<ephT, ephM, ephDate, ephLat>>
loopVars == <<loopPc, utcNow, lat, coordinates, iter, printed>>

vars == <<fmtVars, lonVars, ephVars, loopVars>>

----------------------------------------------------------------------------
(* Constants                                                               *)

number_of_seconds_in_an_hour == 3600
number_of_seconds_in_a_minute == 60

\* Resolution of a decimal-degree input: SubArc units per arc-second.
SubArc == 4

Abs(x) == IF x < 0 THEN -x ELSE x

\* Python's int() of a float: truncation toward zero.  n / d with d > 0.
IntTrunc(n, d) == IF n >= 0 THEN n \div d ELSE -((-n) \div d)

\* 2023-01-01T00:00Z, in minutes since the Unix epoch.
FirstInstant == 27875520

----------------------------------------------------------------------------
(* Binary floating point.  Python's float is IEEE-754 binary64: 53         *)
(* significand bits, every operation rounded to nearest, ties to even.     *)
(* The model keeps the format and its rounding and shortens it: Precision  *)
(* significand bits and a smallest quantum of 2^-FracBits.  A float is the *)
(* integer count of quanta it holds.                                       *)

Precision == 12
FracBits == 10

RECURSIVE Pow2(_)
Pow2(n) == IF n = 0 THEN 1 ELSE 2 * Pow2(n - 1)

\* The quanta in 1.0.
Unit == Pow2(FracBits)

\* The float holding the integer k (exact for the integers the code uses).
Flt(k) == k * Unit

\* The spacing of the floats around magnitude a: one quantum while a fits
\* in Precision bits, doubling with each further bit.
RECURSIVE Spacing(_)
Spacing(a) == IF a < Pow2(Precision) THEN 1 ELSE 2 * Spacing(a \div 2)

\* num / den (den > 0) rounded to the nearest float, ties to even.
RoundRat(num, den) ==
    LET a == Abs(num)
        s == Spacing(a \div den)
        f == a \div (den * s)
        r == a - f * den * s
        up == \/ 2 * r > den * s
              \/ 2 * r = den * s /\ f % 2 = 1
        m == (IF up THEN f + 1 ELSE f) * s
    IN  IF num < 0 THEN -m ELSE m

FAdd(x, y) == RoundRat(x + y, 1)
FSub(x, y) == RoundRat(x - y, 1)
FMul(x, y) == RoundRat(x * y, Unit)
FDiv(x, y) == RoundRat(x * Unit, y)

\* C's fmod(x, w), w > 0: exact, with the sign of x.
FMod(x, w) == IF x >= 0 THEN x % w ELSE -((-x) % w)

\* Python's float x % w for w > 0 (float_rem): fmod, then the divisor is
\* added to a negative remainder, and that sum is rounded like any other.
PyMod(x, w) ==
    LET mod == FMod(x, w)
    IN  IF mod < 0 THEN FAdd(mod, w) ELSE mod

----------------------------------------------------------------------------
(* CoordinateConversions.decimal_coordinates_to_deg_min_sec                *)

\* One coordinate of the conversion, from secs0 = int(value * 3600) on.
\* Python's // and % floor, as \div and % do.
DegMinSec(secs0) ==
    LET degrees == secs0 \div number_of_seconds_in_an_hour
        secs1 == Abs(secs0 % number_of_seconds_in_an_hour)
        minutes == secs1 \div number_of_seconds_in_a_minute
        secs2 == secs1 % number_of_seconds_in_a_minute
    IN  [degrees |-> degrees, minutes |-> minutes, seconds |-> secs2]

\* The arguments of format_string.format, in order: the fields the default
\* format string "{:3d}d {:02d}' {}  {:3d}d {:02d}' {}" displays.
FormatFields(lat_seconds, lon_seconds) ==
    LET la == DegMinSec(lat_seconds)
        lo == DegMinSec(lon_seconds)
    IN  [latD |-> Abs(la.degrees), latM |-> la.minutes,
         latH |-> IF la.degrees >= 0 THEN "North" ELSE "South",
         lonD |-> Abs(lo.degrees), lonM |-> lo.minutes,
         lonH |-> IF lo.degrees >= 0 THEN "East" ELSE "West"]

\* The conversion of decimal degrees given in 1/SubArc arc-seconds:
\* int(value * 3600) is value / SubArc truncated.
decimal_coordinates_to_deg_min_sec(latitude, longitude) ==
    FormatFields(IntTrunc(latitude, SubArc), IntTrunc(longitude, SubArc))

\* A decimal-degree value of d degrees, m minutes, s units, signed.
FmtValue(sign, d, m, s) ==
    sign * ((d * 60 + m) * number_of_seconds_in_a_minute * SubArc + s)

FmtInputs ==
    { FmtValue(sign, d, m, s) :
        sign \in {-1, 1}, d \in {0, 1, 40, 74}, m \in {0, 30, 59},
        s \in {0, 1, SubArc, 60 * SubArc - 1} }

\* The ephemeris functions and the driver loop have not been entered.
EphIdle == ephT = 0 /\ ephM = <<>> /\ ephDate = 0 /\ ephLat = <<>>
NothingPrinted == [time |-> 0, sentence |-> 0, sleeps |-> 0, of |-> 0]
LoopIdle ==
    /\ loopPc = "off" /\ utcNow = 0 /\ lat = 0 /\ coordinates = <<>>
    /\ iter = 0 /\ printed = NothingPrinted

\* Before the call nothing has been formatted.
FmtInit ==
    /\ fmtIn = <<>>
    /\ fmtOut = <<>>
    /\ clock = FirstInstant /\ ticks = 0 /\ date = <<>> /\ lonPc = "idle"
    /\ eOT = 0 /\ hourRead = <<>> /\ minuteRead = <<>>
    /\ lon = <<>> /\ prevLon = <<>> /\ calls = 0
    /\ EphIdle /\ LoopIdle

Format ==
    \E la \in FmtInputs, lo \in FmtInputs :
        /\ fmtOut = <<>>
        /\ fmtIn' = <<la, lo>>
        /\ fmtOut' = decimal_coordinates_to_deg_min_sec(la, lo)
        /\ UNCHANGED <<lonVars, ephVars, loopVars>>

FmtNext == Format

SpecFmt == FmtInit /\ [][FmtNext]_vars

\* The displayed degree field D and minute field M bracket the magnitude of
\* the input v (in 1/SubArc arc-seconds): D + M/60 <= |v| < D + (M+1)/60.
TruncatedMagnitude(v, D, M) ==
    LET unit == number_of_seconds_in_a_minute * SubArc
    IN  /\ (D * 60 + M) * unit <= Abs(v)
        /\ Abs(v) < (D * 60 + M + 1) * unit

\* C2: for every input, positive or negative, whole or fractional, the
\* displayed degree and minute fields are the magnitude of the input
\* truncated to whole minutes, for latitude and longitude alike.
C2_FieldsAreTruncatedMagnitude ==
    fmtOut # <<>> =>
        /\ TruncatedMagnitude(fmtIn[1], fmtOut.latD, fmtOut.latM)
        /\ TruncatedMagnitude(fmtIn[2], fmtOut.lonD, fmtOut.lonM)

\* C3: the hemisphere label follows the sign of the input value itself:
\* latitude >= 0 is North and < 0 is South, longitude >= 0 is East and
\* < 0 is West, also for negative values smaller than one arc-second.
C3_HemisphereFollowsSign ==
    fmtOut # <<>> =>
        /\ fmtOut.latH = (IF fmtIn[1] >= 0 THEN "North" ELSE "South")
        /\ fmtOut.lonH = (IF fmtIn[2] >= 0 THEN "East" ELSE "West")

----------------------------------------------------------------------------
(* Astrocalculations.sub_solar_longitude_of_sun_at_current_time            *)

degrees_longitude_per_hour == 15
noon_time == 12
number_of_hours_in_a_day == 24
number_of_minutes_in_an_hour == 60
number_of_minutes_in_a_day == 1440

\* How often the clock may advance in one behaviour.
MaxTicks == 2

\* How often the step is called with one instant.
MaxCalls == 2

\* datetime's time of day, hour and minute of an instant.
TimeOfDay(c) == c % number_of_minutes_in_a_day
HourOf(c) == TimeOfDay(c) \div number_of_minutes_in_an_hour
MinuteOf(c) == c % number_of_minutes_in_an_hour

\* The clock readings a call can start at: the start, the middle and the
\* last minute of every hour of a day.
ClockStarts ==
    { FirstInstant + h * number_of_minutes_in_an_hour + m :
        h \in 0 .. 23, m \in {0, 30, 59} }

\* Values equation_of_time(date) takes, as floats, in minutes: quarter
\* minutes around zero and whole minutes out to the yearly extremes.
EInputs ==
    { k * (Unit \div 4) : k \in -4 .. 4 } \cup { Flt(k) : k \in {-14, -7, 7, 16} }

\* The instants passed in: the time of day they hold (minutes) and the
\* equation of time equation_of_time computes from them.
Dates == [tod : {0, 725}, eot : EInputs]

\* local_time = hour + minute / 60
LocalTime(hour, minute) ==
    FAdd(Flt(hour), FDiv(Flt(minute), Flt(number_of_minutes_in_an_hour)))

\* SubSolarLonFrom with the hour angle taken from noon to the solar time
\* instead of from the solar time to noon.
SubSolarLonFromSwapped(local_time, e) ==
    LET gmt == PyMod(FSub(local_time,
                          FDiv(e, Flt(number_of_minutes_in_an_hour))),
                     Flt(number_of_hours_in_a_day))
        noon_hour_delta == PyMod(FSub(gmt, Flt(noon_time)),
                                 Flt(number_of_hours_in_a_day))
    IN  FMul(noon_hour_delta, Flt(degrees_longitude_per_hour))

\* Lines 103-106: from local_time and eOT to the value returned.
SubSolarLonFrom(local_time, e) ==
    LET gmt == PyMod(FSub(local_time,
                          FDiv(e, Flt(number_of_minutes_in_an_hour))),
                     Flt(number_of_hours_in_a_day))
        noon_hour_delta == PyMod(FSub(Flt(noon_time), gmt),
                                 Flt(number_of_hours_in_a_day))
    IN  FMul(noon_hour_delta, Flt(degrees_longitude_per_hour))

LonInit ==
    /\ fmtIn = <<>> /\ fmtOut = <<>>
    /\ EphIdle /\ LoopIdle
    /\ clock \in ClockStarts
    /\ ticks = 0
    /\ date \in Dates
    /\ lonPc = "idle"
    /\ eOT = 0 /\ hourRead = <<>> /\ minuteRead = <<>>
    /\ lon = <<>> /\ prevLon = <<>> /\ calls = 0

\* The wall clock moves on by a minute, between any two steps.
Tick ==
    /\ ticks < MaxTicks
    /\ ticks' = ticks + 1
    /\ clock' = clock + 1
    /\ UNCHANGED <<fmtVars, ephVars, loopVars, date, lonPc, eOT, hourRead, minuteRead,
                   lon, prevLon, calls>>

\* The caller calls the step with the instant date.
LonCall ==
    /\ lonPc = "idle"
    /\ calls < MaxCalls
    /\ lonPc' = "L101"
    /\ UNCHANGED <<fmtVars, ephVars, loopVars, clock, ticks, date, eOT, hourRead,
                   minuteRead, lon, prevLon, calls>>

\* Line 101: eOT = equation_of_time(date)
LonEoT ==
    /\ lonPc = "L101"
    /\ eOT' = date.eot
    /\ lonPc' = "L102a"
    /\ UNCHANGED <<fmtVars, ephVars, loopVars, clock, ticks, date, hourRead, minuteRead,
                   lon, prevLon, calls>>

\* Line 102, left operand: datetime.utcnow().hour
LonReadHour ==
    /\ lonPc = "L102a"
    /\ hourRead' = <<HourOf(clock), clock>>
    /\ lonPc' = "L102b"
    /\ UNCHANGED <<fmtVars, ephVars, loopVars, clock, ticks, date, eOT, minuteRead, lon,
                   prevLon, calls>>

\* Line 102, right operand: datetime.utcnow().minute, a second reading;
\* then lines 103-106, which read no more state, and the return.
LonReadMinute ==
    /\ lonPc = "L102b"
    /\ minuteRead' = <<MinuteOf(clock), clock>>
    /\ lon' = SubSolarLonFrom(LocalTime(hourRead[1], minuteRead'[1]), eOT)
    /\ prevLon' = lon
    /\ calls' = calls + 1
    /\ lonPc' = "idle"
    /\ UNCHANGED <<fmtVars, ephVars, loopVars, clock, ticks, date, eOT, hourRead>>

LonNext == Tick \/ LonCall \/ LonEoT \/ LonReadHour \/ LonReadMinute

SpecLon == LonInit /\ [][LonNext]_vars

\* A call of the step has returned.
LonReturned == lonPc = "idle" /\ calls > 0

\* C1: computing the step twice for the identical instant yields identical
\* results, whatever the wall clock reads at the time of each call.
C1_SameInstantSameResult ==
    (lonPc = "idle" /\ calls = 2) => lon = prevLon

\* C5: for every wall-clock time of day and every value of the equation of
\* time, the value returned lies in [0, 360): never negative, never 360 or
\* above.
C5_LongitudeInRange ==
    LonReturned => (0 <= lon /\ lon < Flt(360))

\* The formula of C6, from the hour and minute the call read off the wall
\* clock and the equation of time E of the passed instant.
C6_Formula(hour, minute, E) ==
    LET H == FAdd(Flt(hour), FDiv(Flt(minute), Flt(60)))
        g == PyMod(FSub(H, FDiv(E, Flt(60))), Flt(24))
    IN  FMul(Flt(15), PyMod(FSub(Flt(12), g), Flt(24)))

\* C6: the step returns 15 * ((12 - g) mod 24) with g = (H - E/60) mod 24,
\* E the equation of time of the passed instant and H = hour + minute/60
\* read from the wall clock during the call, not from the passed instant;
\* with E = 0 the result is 0 at 12:00 and 15 more for each hour before noon.
C6_LongitudeFormula ==
    LonReturned =>
        /\ hourRead[1] = ((hourRead[2] % 1440) \div 60)
        /\ minuteRead[1] = minuteRead[2] % 60
        /\ lon = C6_Formula(hourRead[1], minuteRead[1], date.eot)
        /\ (date.eot = 0 /\ minuteRead[1] = 0 /\ hourRead[1] <= 12)
              => lon = Flt(15 * (12 - hourRead[1]))

\* C6's case: a call returned whose clock readings differ from the time of
\* day of the passed instant, before noon with E = 0.
C6_Witness ==
    /\ LonReturned
    /\ date.eot = 0 /\ minuteRead[1] = 0 /\ hourRead[1] = 9
    /\ date.tod # hourRead[2] % 1440
    /\ lon = Flt(45)

\* C9: H = hour + minute/60 corresponds to one single reading of the clock,
\* also when the clock advances between the steps of the call.
C9_SingleClockReading ==
    LonReturned =>
        LET H == hourRead[1] * 60 + minuteRead[1]
        IN  H = hourRead[2] % 1440 \/ H = minuteRead[2] % 1440

----------------------------------------------------------------------------
(* Fixed point for the ephemeris.  An instant is a count of minutes since  *)
(* 1970-01-01T00:00Z; a Julian date counts 1/JdScale days; a Julian century *)
(* counts 1/TScale centuries; degrees count 1/DegScale degrees; radians,   *)
(* sines and the other pure numbers count 1/Scale.  Every quotient is      *)
(* truncated toward zero.                                                  *)

JdScale == 1440 \div 2
TScale == 10^7
DegScale == 10^4
LatScale == 10^5
Scale == 10^6

\* x * a \div c for x, a >= 0 and c > 0, without an intermediate beyond
\* 2c + x: <<quotient, remainder>>, by doubling over the bits of a.
RECURSIVE MulDivQR(_, _, _)
MulDivQR(x, a, c) ==
    IF a = 0 THEN <<0, 0>>
    ELSE LET h == MulDivQR(x, a \div 2, c)
             v == 2 * h[2] + (a % 2) * x
         IN  <<2 * h[1] + v \div c, v % c>>

\* x * a / c truncated toward zero, c > 0.
MulDiv(x, a, c) ==
    LET q == MulDivQR(Abs(x), Abs(a), c)[1]
    IN  IF (x < 0) = (a < 0) THEN q ELSE -q

\* The product of two numbers that count 1/Scale.
Mul(a, b) == MulDiv(a, b, Scale)

----------------------------------------------------------------------------
(* math.sin, math.asin                                                     *)

PiScaled == 3141592
HalfPiScaled == 1570796
TwoPiScaled == 6283185

\* The Taylor series of sin on [-pi/2, pi/2]: term is the latest term, of
\* degree n - 2; the series stops after degree 13.
RECURSIVE SinSeries(_, _, _)
SinSeries(x2, term, n) ==
    IF n > 13 THEN 0
    ELSE LET next == -IntTrunc(Mul(term, x2), (n - 1) * n)
         IN  next + SinSeries(x2, next, n + 2)

\* math.sin of x radians: reduced to (-pi, pi], folded onto [-pi/2, pi/2],
\* summed; the result of math.sin is never outside [-1, 1].
Sin(x) ==
    LET r0 == x % TwoPiScaled
        r1 == IF r0 > PiScaled THEN r0 - TwoPiScaled ELSE r0
        r == IF r1 > HalfPiScaled THEN PiScaled - r1
             ELSE IF r1 < -HalfPiScaled THEN -PiScaled - r1 ELSE r1
        s == r + SinSeries(Mul(r, r), r, 3)
    IN  IF s > Scale THEN Scale ELSE IF s < -Scale THEN -Scale ELSE s

\* math.cos
Cos(x) == Sin(x + HalfPiScaled)

\* The Taylor series of asin: term is the latest term, of degree n - 2; the
\* series stops after degree 17.
RECURSIVE AsinSeries(_, _, _)
AsinSeries(y2, term, n) ==
    IF n > 17 THEN 0
    ELSE LET next == IntTrunc(Mul(term, y2) * (n - 2) * (n - 2), (n - 1) * n)
         IN  next + AsinSeries(y2, next, n + 2)

\* math.asin of y, radians.
Asin(y) == y + AsinSeries(Mul(y, y), y, 3)

----------------------------------------------------------------------------
(* Astrocalculations                                                       *)

three_sixty_degrees == 360
number_of_days_in_a_century == 36525

\* Constants.earth_tilt_in_radians, 0.40905543478
earth_tilt_in_radians == 409055

\* Constants.earth_tilt_in_degrees, 23.43715, in 1/LatScale degrees
earth_tilt_in_degrees == 2343715

\* jd_from_date: 2440587.5 + date.timestamp() / 86400, in 1/JdScale days
\* (a minute is 1/1440 day).
jd_from_date(d) ==
    (2440587 * JdScale + JdScale \div 2)
    + IntTrunc(d, number_of_minutes_in_a_day \div JdScale)

\* julian_century_since_jan_2000: (jd - 2451545) / 36525, in 1/TScale
\* centuries.
julian_century_since_jan_2000(d) ==
    MulDiv(jd_from_date(d) - 2451545 * JdScale, TScale,
           number_of_days_in_a_century * JdScale)

\* orbit_eccentricity_of_earth: 0.016708634 - t * (0.000042037 +
\* 0.0000001267 * t); the polynomial in units of 1e-9, the result in 1/Scale.
orbit_eccentricity_of_earth(t) ==
    IntTrunc(16708634 - MulDiv(t, 42037 + IntTrunc(MulDiv(t, 1267, TScale), 10),
                               TScale),
             1000)

\* t * c for a coefficient c = whole + frac / 10^5 degrees, in 1/DegScale
\* degrees.
TimesCoefficient(t, whole, frac) ==
    MulDiv(t, whole * DegScale, TScale) + IntTrunc(MulDiv(t, frac, TScale), 10)

\* t * c for a coefficient c = tenMillionths / 10^7 degrees, in 1/DegScale
\* degrees.
TimesSmallCoefficient(t, tenMillionths) ==
    IntTrunc(MulDiv(t, tenMillionths, 10^9), 10)

\* mean_anomaly: 357.52911 + t * 35999.05029 - t * 0.0001537, in
\* 1/DegScale degrees.
mean_anomaly(t) ==
    3575291 + TimesCoefficient(t, 35999, 5029) - TimesSmallCoefficient(t, 1537)

\* geometric_mean_longitude_of_sun_at_current_time:
\* (280.46646 + t * 36000.76983 + t * t * 0.0003032) % 360
geometric_mean_longitude_of_sun_at_current_time(t) ==
    (2804664 + TimesCoefficient(t, 36000, 76983)
       + TimesSmallCoefficient(MulDiv(t, t, TScale), 3032))
    % (three_sixty_degrees * DegScale)

\* x * Constants.degrees_to_radians (0.01745329252) for x in 1/DegScale
\* degrees, in radians; math.sin and math.cos are periodic, and the angle
\* is brought below a turn before it is scaled.
ToRadians(x) ==
    MulDiv(FMod(x, three_sixty_degrees * DegScale), 1745329252, 10^9)

\* sun_equation_of_center, in 1/Scale degrees.
sun_equation_of_center(t) ==
    LET m == mean_anomaly(t)
    IN  Mul(Sin(ToRadians(m)),
            1914602 - MulDiv(t, 4817 + MulDiv(t, 14, TScale), TScale))
        + Mul(Sin(ToRadians(2 * m)), 19993 - MulDiv(t, 101, TScale))
        + Mul(Sin(ToRadians(3 * m)), 289)

\* x radians * Constants.radians_to_degrees (57.2957795131), in 1/LatScale
\* degrees.
RadiansToDegrees(x) == MulDiv(x, 572957795, 10^8)

\* latitude_of_sun with the tilt's sine left out of the product.
latitude_of_sun_no_tilt(d) ==
    LET jC == julian_century_since_jan_2000(d)
        geom_mean_longitude == geometric_mean_longitude_of_sun_at_current_time(jC)
        sun_true_longitude ==
            geom_mean_longitude
            + IntTrunc(sun_equation_of_center(jC), Scale \div DegScale)
    IN  RadiansToDegrees(Asin(Sin(ToRadians(sun_true_longitude))))

\* latitude_of_sun, in 1/LatScale degrees.
latitude_of_sun(d) ==
    LET jC == julian_century_since_jan_2000(d)
        geom_mean_longitude == geometric_mean_longitude_of_sun_at_current_time(jC)
        sun_true_longitude ==
            geom_mean_longitude
            + IntTrunc(sun_equation_of_center(jC), Scale \div DegScale)
    IN  RadiansToDegrees(Asin(Mul(Sin(ToRadians(sun_true_longitude)),
                                  Sin(earth_tilt_in_radians))))

\* equation_of_time, in 1/Scale minutes.
equation_of_time(d) ==
    LET t == julian_century_since_jan_2000(d)
        mean_longitude_sun_radians ==
            ToRadians(geometric_mean_longitude_of_sun_at_current_time(t))
        mean_anomaly_sun_radians == ToRadians(mean_anomaly(t))
        eccentricity == orbit_eccentricity_of_earth(t)
        obliquity == 43026
        term1 == Mul(obliquity, Sin(2 * mean_longitude_sun_radians))
        term2 == 2 * Mul(eccentricity, Sin(mean_anomaly_sun_radians))
        term3 == 4 * Mul(Mul(Mul(eccentricity, obliquity),
                             Sin(mean_anomaly_sun_radians)),
                         Cos(2 * mean_longitude_sun_radians))
        term4 == IntTrunc(Mul(Mul(obliquity, obliquity),
                              Sin(4 * mean_longitude_sun_radians)), 2)
        term5 == IntTrunc(5 * Mul(Mul(eccentricity, eccentricity),
                                  Sin(2 * mean_anomaly_sun_radians)), 4)
    IN  MulDiv(4 * (term1 - term2 + term3 - term4 - term5), 572957795, 10^7)

\* Julian centuries mean_anomaly is applied to: every quarter century from
\* 1600 to 2500.
TInputs == { k * (TScale \div 4) : k \in -16 .. 20 }

\* How many instants, five days and forty-three minutes apart, the
\* ephemeris is evaluated at.
MaxInstants == 150

\* Instants latitude_of_sun is applied to: two years from 2023-01-01, and
\* the solstices 2023-12-22T03:27Z and 2024-06-20T20:51Z.
DateInputs ==
    { FirstInstant + k * 7243 : k \in 0 .. MaxInstants } \cup {28386927, 28648611}

EphInit ==
    /\ ephT \in TInputs
    /\ ephDate \in DateInputs
    /\ ephM = <<>> /\ ephLat = <<>>
    /\ fmtIn = <<>> /\ fmtOut = <<>>
    /\ clock = FirstInstant /\ ticks = 0 /\ date = <<>> /\ lonPc = "idle"
    /\ eOT = 0 /\ hourRead = <<>> /\ minuteRead = <<>>
    /\ lon = <<>> /\ prevLon = <<>> /\ calls = 0
    /\ LoopIdle

CallMeanAnomaly ==
    /\ ephM = <<>>
    /\ ephM' = <<mean_anomaly(ephT)>>
    /\ UNCHANGED <<fmtVars, lonVars, loopVars, ephT, ephDate, ephLat>>

CallLatitudeOfSun ==
    /\ ephLat = <<>>
    /\ ephLat' = <<latitude_of_sun(ephDate)>>
    /\ UNCHANGED <<fmtVars, lonVars, loopVars, ephT, ephDate, ephM>>

EphNext == CallMeanAnomaly \/ CallLatitudeOfSun

SpecEph == EphInit /\ [][EphNext]_vars

\* C4: for every Julian century t, mean_anomaly(t) equals
\* 357.52911 + 35999.05029 * t - 0.0001537 * t^2: the last term is
\* quadratic in t.
C4_MeanAnomalyQuadratic ==
    ephM # <<>> =>
        ephM[1] = 3575291 + TimesCoefficient(ephT, 35999, 5029)
               - TimesSmallCoefficient(MulDiv(ephT, ephT, TScale), 1537)

\* C7: for every instant, the latitude returned by latitude_of_sun has
\* magnitude at most 23.43715 degrees, the axial tilt.
C7_LatitudeWithinTilt ==
    ephLat # <<>> => Abs(ephLat[1]) <= earth_tilt_in_degrees

\* C7's case: latitude_of_sun has returned the latitude of a solstice,
\* within 0.05 degrees of the tilt.
C7_Witness ==
    /\ ephLat # <<>>
    /\ ephDate = 28386927
    /\ ephLat[1] < -(earth_tilt_in_degrees - LatScale \div 20)

----------------------------------------------------------------------------
(* The driver loop, lines 119-127, and get_sub_solar_coordinates           *)

\* How often the clock may advance while the driver runs.
MaxLoopTicks == 1

\* How many days, four days apart from 2023-01-01, the driver is started on.
MaxDays == 45

\* The instants the driver is started at: midnight, 00:59, noon and 23:59.
LoopStarts ==
    { FirstInstant + 4 * d * number_of_minutes_in_a_day + m :
        d \in 0 .. MaxDays, m \in {0, 59, 720, 1439} }

\* The float nearest to x / Scale (Unit / Scale in lower terms: Scale is
\* 2^6 * 5^6).
FloatOfScaled(x) == RoundRat(x * (Unit \div 64), Scale \div 64)

\* int(latitude * 3600) for a latitude in 1/LatScale degrees.
LatSeconds(la) == MulDiv(la, number_of_seconds_in_an_hour, LatScale)

\* int(longitude * 3600) for a float longitude; the product is taken
\* exactly, as it is for the formatter's inputs.
LonSeconds(lo) == IntTrunc(lo * number_of_seconds_in_an_hour, Unit)

LoopInit ==
    /\ fmtIn = <<>> /\ fmtOut = <<>>
    /\ EphIdle
    /\ clock \in LoopStarts
    /\ ticks = 0 /\ date = <<>> /\ lonPc = "idle"
    /\ eOT = 0 /\ hourRead = <<>> /\ minuteRead = <<>>
    /\ lon = <<>> /\ prevLon = <<>> /\ calls = 0
    /\ loopPc = "L120" /\ utcNow = 0 /\ lat = 0 /\ coordinates = <<>>
    /\ iter = 0 /\ printed = NothingPrinted

\* The wall clock moves on by a minute, between any two steps.
LoopTick ==
    /\ ticks < MaxLoopTicks
    /\ ticks' = ticks + 1
    /\ clock' = clock + 1
    /\ UNCHANGED <<fmtVars, ephVars, loopVars, date, lonPc, eOT, hourRead,
                   minuteRead, lon, prevLon, calls>>

\* Lines 120-122: the next iteration starts; the formatted local time is
\* printed.
LoopPrintTime ==
    /\ loopPc = "L120"
    /\ iter' = 1 - iter
    /\ printed' = [NothingPrinted EXCEPT !.time = 1]
    /\ loopPc' = "L123"
    /\ UNCHANGED <<fmtVars, lonVars, ephVars, utcNow, lat, coordinates>>

\* Lines 123, 110: now = datetime.utcnow()
LoopGetNow ==
    /\ loopPc = "L123"
    /\ utcNow' = clock
    /\ loopPc' = "L111"
    /\ UNCHANGED <<fmtVars, lonVars, ephVars, lat, coordinates, iter, printed>>

\* Line 111: lat = latitude_of_sun(now)
LoopLatitude ==
    /\ loopPc = "L111"
    /\ lat' = latitude_of_sun(utcNow)
    /\ loopPc' = "L112"
    /\ UNCHANGED <<fmtVars, lonVars, ephVars, utcNow, coordinates, iter,
                   printed>>

\* Line 112: sub_solar_longitude_of_sun_at_current_time(now) is entered.
LoopCallLon ==
    /\ loopPc = "L112"
    /\ date' = [tod |-> TimeOfDay(utcNow),
                eot |-> FloatOfScaled(equation_of_time(utcNow))]
    /\ calls' = 0
    /\ lonPc' = "L101"
    /\ loopPc' = "L112r"
    /\ UNCHANGED <<fmtVars, ephVars, clock, ticks, eOT, hourRead, minuteRead,
                   lon, prevLon, utcNow, lat, coordinates, iter, printed>>

\* Lines 113, 124-125: the step has returned; the coordinates are formatted.
LoopFormat ==
    /\ loopPc = "L112r"
    /\ lonPc = "idle"
    /\ calls = 1
    /\ coordinates' = [fields |-> FormatFields(LatSeconds(lat), LonSeconds(lon)),
                       of |-> iter]
    /\ loopPc' = "L126"
    /\ UNCHANGED <<fmtVars, lonVars, ephVars, utcNow, lat, iter, printed>>

\* Line 126: the sentence is printed.
LoopPrintSentence ==
    /\ loopPc = "L126"
    /\ printed' = [printed EXCEPT !.sentence = @ + 1, !.of = coordinates.of]
    /\ loopPc' = "L127"
    /\ UNCHANGED <<fmtVars, lonVars, ephVars, utcNow, lat, coordinates, iter>>

\* LoopSleep with the loop left after the sleep.
LoopSleepAndExit ==
    /\ loopPc = "L127"
    /\ printed' = [printed EXCEPT !.sleeps = @ + 1]
    /\ loopPc' = "exit"
    /\ UNCHANGED <<fmtVars, lonVars, ephVars, utcNow, lat, coordinates, iter>>

\* Line 127: time.sleep(secs_to_delay), then back to line 119.
LoopSleep ==
    /\ loopPc = "L127"
    /\ printed' = [printed EXCEPT !.sleeps = @ + 1]
    /\ loopPc' = "L120"
    /\ UNCHANGED <<fmtVars, lonVars, ephVars, utcNow, lat, coordinates, iter>>

\* The steps of the program; the clock is the environment's.
LoopStep ==
    \/ LoopPrintTime \/ LoopGetNow \/ LoopLatitude \/ LoopCallLon
    \/ LonEoT \/ LonReadHour \/ LonReadMinute
    \/ LoopFormat \/ LoopPrintSentence \/ LoopSleep

LoopNext == LoopTick \/ LoopStep

\* A step of the program as its control sees it: the line left and the
\* line reached by each action of LoopStep.
ControlAdvances ==
    \/ loopPc = "L120" /\ loopPc' = "L123" /\ lonPc' = lonPc
    \/ loopPc = "L123" /\ loopPc' = "L111" /\ lonPc' = lonPc
    \/ loopPc = "L111" /\ loopPc' = "L112" /\ lonPc' = lonPc
    \/ loopPc = "L112" /\ loopPc' = "L112r" /\ lonPc' = "L101"
    \/ lonPc = "L101" /\ lonPc' = "L102a" /\ loopPc' = loopPc
    \/ lonPc = "L102a" /\ lonPc' = "L102b" /\ loopPc' = loopPc
    \/ lonPc = "L102b" /\ lonPc' = "idle" /\ loopPc' = loopPc
    \/ /\ loopPc = "L112r" /\ lonPc = "idle" /\ calls = 1
       /\ loopPc' = "L126" /\ lonPc' = lonPc
    \/ loopPc = "L126" /\ loopPc' = "L127" /\ lonPc' = lonPc
    \/ loopPc = "L127" /\ loopPc' = "L120" /\ lonPc' = lonPc

\* The interpreter runs the one thread whenever it can take a step, and
\* time.sleep returns.
SpecLoop ==
    LoopInit /\ [][LoopNext]_vars /\ WF_<<loopPc, lonPc>>(ControlAdvances)

\* The lines of one iteration come in order, once each, and the sentence
\* printed is of the coordinates computed in the iteration under way.
C8_Order ==
    /\ loopPc \in {"L120", "L123", "L111", "L112", "L112r", "L126", "L127"}
    /\ printed.time <= 1
    /\ printed.sentence <= printed.time
    /\ printed.sleeps <= printed.sentence
    /\ printed.sentence = 1 => printed.of = iter
    /\ loopPc = "L120" =>
          \/ printed = NothingPrinted /\ iter = 0
          \/ printed.time = 1 /\ printed.sentence = 1 /\ printed.sleeps = 1

\* C8: the driver loop never terminates on its own; every iteration prints
\* exactly one time line, then exactly one sentence computed in that same
\* iteration, then sleeps once, before the next iteration starts; and a
\* sentence is printed infinitely often.
C8_LoopAlternatesForever == [](C8_Order) /\ []<>(loopPc = "L127")

\* C8's case: the second iteration has printed its sentence.
C8_Witness ==
    /\ loopPc = "L127" /\ iter = 0
    /\ printed.time = 1 /\ printed.sentence = 1 /\ printed.of = 0

\* C10: in every iteration of the driver loop the longitude handed to the
\* formatter is non-negative, the longitude block is labelled East, never
\* West, and its degree field is in 0..359.
C10_LongitudeBlockEast ==
    coordinates # <<>> =>
        /\ lon >= 0
        /\ coordinates.fields.lonH = "East"
        /\ coordinates.fields.lonD \in 0 .. 359

====
